---- MODULE Spec2Model ----
(***************************************************************************)
(* A model of package set (src/set.go): a generic Set guarded by a         *)
(* sync.RWMutex, its point operations (Put, Delete, Has, Len, Range, Copy, *)
(* String) and its multi-set operations (Intersection, Union, Diff,        *)
(* Subset, Equal), run by several goroutines on shared Set instances.      *)
(*                                                                         *)
(* Every goroutine step is one action: taking or releasing a lock, one     *)
(* iteration of a loop over a table, one table read or write.  A goroutine *)
(* that sleeps inside RLock or Lock is Blocked and takes no step.          *)
(***************************************************************************)
EXTENDS Integers, Sequences, FiniteSets, TLC

\* ------------------------------------------------------------ universes

\* A goroutine running alone puts the elements 1..NumElems and passes at
\* most MaxArgs sets to a variadic call (Union, Intersection).
NumElems == 2
MaxArgs == 2
\* Goroutines running together put the elements ConcElems and pass at most
\* MaxConcArgs sets to a variadic call.
MaxConcArgs == 2

Elems == 1..NumElems
ConcElems == {1, 2}
\* Goroutines.
Threads == {1, 2, 3, 4}
\* Set instances shared by the goroutines, made by New before they start;
\* the runs with several goroutines use two of them.
Shared == {1, 2, 3}
ConcShared == {1, 2}
\* The Set instance that goroutine t's current call makes with New.
Fresh(t) == 0 - t
AllSets == Shared \cup {Fresh(t) : t \in Threads}
NoThread == 0
NoSet == 0

VARIABLES
    m,        \* m[s]: the membership table of Set s (Set.m)
    w,        \* w[s]: the goroutine inside s.mu.Lock()..Unlock(), or NoThread
    readers,  \* readers[s][t]: how many times t holds s.mu in shared mode
    rwait,    \* rwait[s]: goroutines asleep in s.mu.RLock() behind a writer
    pc,       \* pc[t]: where goroutine t stands
    op,       \* op[t]: the operation t runs, or ran last
    args,     \* args[t]: the Sets of the call, the receiver first
    el,       \* el[t]: the element argument of Put, Delete and Has
    stop,     \* stop[t]: the visitor of Range returns false on call number stop[t] (0: never)
    idx,      \* idx[t]: the index into args[t] of the loop over sets
    small,    \* small[t]: Intersection's smallest
    seen,     \* seen[t]: the members the current loop over a table has yielded
    ret,      \* ret[t]: the value the call returns
    sb,       \* sb[t]: String's strings.Builder
    lastPut,  \* history: lastPut[s][e] iff the last mutation of e to lock s was a Put
    ord       \* history: ord[t] = pairs <<x, y>>, x # y: t's call took y's lock holding x's

vars == <<m, w, readers, rwait, pc, op, args, el, stop, idx, small, seen, ret, sb,
          lastPut, ord>>
lockVars == <<w, readers, rwait>>
localVars == <<op, args, el, stop>>

\* ---------------------------------------------------------- sync.RWMutex

\* Goroutines holding s.mu in shared mode.
ActiveReaders(s) == {u \in Threads : readers[s][u] > 0}

\* t sleeps: in RLock behind a writer, or in Lock until the readers leave.
Blocked(t) ==
    \E s \in AllSets :
        \/ t \in rwait[s]
        \/ w[s] = t /\ ActiveReaders(s) # {}

HoldsShared(t, s) == readers[s][t] > 0
HoldsExclusive(t, s) == w[s] = t /\ ActiveReaders(s) = {}

\* The locks t holds when it takes another one.
Held(t) == {x \in AllSets : HoldsShared(t, x) \/ w[x] = t}

\* s.mu.RLock(): behind a writer that has announced itself the reader sleeps
\* until that writer's Unlock; otherwise it holds the lock at once.
RLock(t, s) ==
    /\ IF w[s] # NoThread
       THEN /\ rwait' = [rwait EXCEPT ![s] = @ \cup {t}]
            /\ UNCHANGED <<w, readers>>
       ELSE /\ readers' = [readers EXCEPT ![s][t] = @ + 1]
            /\ UNCHANGED <<w, rwait>>
    /\ ord' = [ord EXCEPT ![t] = @ \cup {<<x, s>> : x \in Held(t) \ {s}}]

\* s.mu.RUnlock()
RUnlock(t, s) ==
    /\ readers' = [readers EXCEPT ![s][t] = IF @ > 0 THEN @ - 1 ELSE 0]
    /\ UNCHANGED <<w, rwait>>

\* s.mu.Lock(): writers exclude each other; the writer that got in has
\* announced itself and sleeps (Blocked) until the active readers have left.
Lock(t, s) ==
    /\ w[s] = NoThread
    /\ w' = [w EXCEPT ![s] = t]
    /\ UNCHANGED <<readers, rwait>>
    /\ ord' = [ord EXCEPT ![t] = @ \cup {<<x, s>> : x \in Held(t) \ {s}}]

\* s.mu.Unlock(): the readers that slept behind the writer now hold the lock.
Unlock(t, s) ==
    /\ w' = [w EXCEPT ![s] = NoThread]
    /\ readers' = [readers EXCEPT ![s] =
                     [u \in Threads |-> @[u] + IF u \in rwait[s] THEN 1 ELSE 0]]
    /\ rwait' = [rwait EXCEPT ![s] = {}]

\* t stands at p and is awake.
At(t, p) == pc[t] = p /\ ~Blocked(t)

Goto(t, p) == pc' = [pc EXCEPT ![t] = p]

\* ------------------------------------------------------------------ New

Init ==
    /\ m = [s \in AllSets |-> {}]
    /\ w = [s \in AllSets |-> NoThread]
    /\ readers = [s \in AllSets |-> [t \in Threads |-> 0]]
    /\ rwait = [s \in AllSets |-> {}]
    /\ pc = [t \in Threads |-> "idle"]
    /\ op = [t \in Threads |-> "none"]
    /\ args = [t \in Threads |-> <<>>]
    /\ el = [t \in Threads |-> 0]
    /\ stop = [t \in Threads |-> 0]
    /\ idx = [t \in Threads |-> 1]
    /\ small = [t \in Threads |-> NoSet]
    /\ seen = [t \in Threads |-> {}]
    /\ ret = [t \in Threads |-> "none"]
    /\ sb = [t \in Threads |-> <<>>]
    /\ lastPut = [s \in AllSets |-> [e \in Elems \cup ConcElems |-> FALSE]]
    /\ ord = [t \in Threads |-> {}]

\* ---------------------------------------------------------------- calls

\* The first position of a call of o on the sets a.  Intersection and Union
\* of no sets return the New set at once.
EntryPc(o, a) ==
    CASE o = "Put" -> "put_lock"
      [] o = "Delete" -> "delete_lock"
      [] o = "Has" -> "has_rlock"
      [] o = "Len" -> "len_rlock"
      [] o = "Range" -> "range_rlock"
      [] o = "Copy" -> "range_rlock"
      [] o = "RangePut" -> "range_rlock"
      [] o = "RangeDelete" -> "range_rlock"
      [] o = "String" -> "string_rlock"
      [] o = "Diff" -> "diff_rlock"
      [] o = "Subset" -> "cmp_rlock_s"
      [] o = "Equal" -> "cmp_rlock_s"
      [] o = "Union" -> IF Len(a) = 0 THEN "ret" ELSE "range_rlock"
      [] o = "Intersection" -> IF Len(a) = 0 THEN "ret" ELSE "inter_rlock"

\* Goroutine t, between calls, calls o on the sets a with element e and a
\* visitor that returns false at its k-th call.  The Set the call may build
\* is a New one.
Invoke(t, o, a, e, k) ==
    /\ pc[t] = "idle"
    /\ pc' = [pc EXCEPT ![t] = EntryPc(o, a)]
    /\ op' = [op EXCEPT ![t] = o]
    /\ args' = [args EXCEPT ![t] = a]
    /\ el' = [el EXCEPT ![t] = e]
    /\ stop' = [stop EXCEPT ![t] = k]
    /\ small' = [small EXCEPT ![t] = IF o = "Intersection" /\ Len(a) > 0 THEN a[1] ELSE NoSet]
    /\ UNCHANGED <<m, lockVars, idx, seen, ret, sb, lastPut, ord>>

\* The call has returned (pc "ret": its arguments and its result stand); the
\* caller drops them and is between calls again.
Return(t) ==
    /\ pc[t] = "ret"
    /\ pc' = [pc EXCEPT ![t] = "idle"]
    /\ op' = [op EXCEPT ![t] = "none"]
    /\ args' = [args EXCEPT ![t] = <<>>]
    /\ el' = [el EXCEPT ![t] = 0]
    /\ stop' = [stop EXCEPT ![t] = 0]
    /\ idx' = [idx EXCEPT ![t] = 1]
    /\ small' = [small EXCEPT ![t] = NoSet]
    /\ seen' = [seen EXCEPT ![t] = {}]
    /\ ret' = [ret EXCEPT ![t] = "none"]
    /\ sb' = [sb EXCEPT ![t] = <<>>]
    /\ ord' = [ord EXCEPT ![t] = {}]
    /\ m' = [m EXCEPT ![Fresh(t)] = {}]
    /\ UNCHANGED <<lockVars, lastPut>>

\* Where Put and Delete return to: the caller, or Range's loop when it was
\* Range's visitor that called (the visitor then returns true).
AfterMutation(t) ==
    IF op[t] \in {"RangePut", "RangeDelete"} THEN "range_loop" ELSE "ret"

\* ------------------------------------------------------------------ Put

\* Put without s.mu.Lock().
PutLock_NoLock(t) ==
    /\ At(t, "put_lock")
    /\ lastPut' = [lastPut EXCEPT ![args[t][1]][el[t]] = TRUE]
    /\ Goto(t, "put_write")
    /\ UNCHANGED <<m, lockVars, localVars, idx, small, seen, ret, sb, ord>>

PutLock(t) ==
    /\ At(t, "put_lock")
    /\ Lock(t, args[t][1])
    /\ lastPut' = [lastPut EXCEPT ![args[t][1]][el[t]] = TRUE]
    /\ Goto(t, "put_write")
    /\ UNCHANGED <<m, localVars, idx, small, seen, ret, sb>>

\* Put making a new table of the one element.
PutWrite_Clobber(t) ==
    /\ At(t, "put_write")
    /\ m' = [m EXCEPT ![args[t][1]] = {el[t]}]
    /\ Goto(t, "put_unlock")
    /\ UNCHANGED <<lockVars, localVars, idx, small, seen, ret, sb, lastPut, ord>>

PutWrite(t) ==
    /\ At(t, "put_write")
    /\ m' = [m EXCEPT ![args[t][1]] = @ \cup {el[t]}]
    /\ Goto(t, "put_unlock")
    /\ UNCHANGED <<lockVars, localVars, idx, small, seen, ret, sb, lastPut, ord>>

PutUnlock(t) ==
    /\ At(t, "put_unlock")
    /\ Unlock(t, args[t][1])
    /\ Goto(t, AfterMutation(t))
    /\ UNCHANGED <<m, localVars, idx, small, seen, ret, sb, lastPut, ord>>

\* --------------------------------------------------------------- Delete

\* Delete without s.mu.Lock().
DeleteLock_NoLock(t) ==
    /\ At(t, "delete_lock")
    /\ lastPut' = [lastPut EXCEPT ![args[t][1]][el[t]] = FALSE]
    /\ Goto(t, "delete_write")
    /\ UNCHANGED <<m, lockVars, localVars, idx, small, seen, ret, sb, ord>>

DeleteLock(t) ==
    /\ At(t, "delete_lock")
    /\ Lock(t, args[t][1])
    /\ lastPut' = [lastPut EXCEPT ![args[t][1]][el[t]] = FALSE]
    /\ Goto(t, "delete_write")
    /\ UNCHANGED <<m, localVars, idx, small, seen, ret, sb>>

\* Delete emptying the table.
DeleteWrite_Clear(t) ==
    /\ At(t, "delete_write")
    /\ m' = [m EXCEPT ![args[t][1]] = {}]
    /\ Goto(t, "delete_unlock")
    /\ UNCHANGED <<lockVars, localVars, idx, small, seen, ret, sb, lastPut, ord>>

DeleteWrite(t) ==
    /\ At(t, "delete_write")
    /\ m' = [m EXCEPT ![args[t][1]] = @ \ {el[t]}]
    /\ Goto(t, "delete_unlock")
    /\ UNCHANGED <<lockVars, localVars, idx, small, seen, ret, sb, lastPut, ord>>

DeleteUnlock(t) ==
    /\ At(t, "delete_unlock")
    /\ Unlock(t, args[t][1])
    /\ Goto(t, AfterMutation(t))
    /\ UNCHANGED <<m, localVars, idx, small, seen, ret, sb, lastPut, ord>>

\* ------------------------------------------------------------------ Has

HasRLock(t) ==
    /\ At(t, "has_rlock")
    /\ RLock(t, args[t][1])
    /\ Goto(t, "has_read")
    /\ UNCHANGED <<m, localVars, idx, small, seen, ret, sb, lastPut>>

HasRead(t) ==
    /\ At(t, "has_read")
    /\ ret' = [ret EXCEPT ![t] = el[t] \in m[args[t][1]]]
    /\ Goto(t, "has_runlock")
    /\ UNCHANGED <<m, lockVars, localVars, idx, small, seen, sb, lastPut, ord>>

HasRUnlock(t) ==
    /\ At(t, "has_runlock")
    /\ RUnlock(t, args[t][1])
    /\ Goto(t, "ret")
    /\ UNCHANGED <<m, localVars, idx, small, seen, ret, sb, lastPut, ord>>

\* ------------------------------------------------------------------ Len

\* len(s.m)
LenValue(s) == Cardinality(m[s])

LenRLock(t) ==
    /\ At(t, "len_rlock")
    /\ RLock(t, args[t][1])
    /\ Goto(t, "len_read")
    /\ UNCHANGED <<m, localVars, idx, small, seen, ret, sb, lastPut>>

LenRead(t) ==
    /\ At(t, "len_read")
    /\ ret' = [ret EXCEPT ![t] = LenValue(args[t][1])]
    /\ Goto(t, "len_runlock")
    /\ UNCHANGED <<m, lockVars, localVars, idx, small, seen, sb, lastPut, ord>>

LenRUnlock(t) ==
    /\ At(t, "len_runlock")
    /\ RUnlock(t, args[t][1])
    /\ Goto(t, "ret")
    /\ UNCHANGED <<m, localVars, idx, small, seen, ret, sb, lastPut, ord>>

\* ---------------------------------------------------------------- Range
\* Range is called by the goroutine itself (op Range, with a visitor that
\* only counts; ops RangePut and RangeDelete, with a visitor that calls
\* s.Put(el) or s.Delete(el) on the Set s it ranges over) and by Copy, Union
\* and Diff with their own visitors.  A range over a table yields its members
\* in any order: each iteration picks any member not yet yielded.

\* The Set the current Range runs over: the receiver of Range, Copy and Diff,
\* Union's idx-th set.
RangeSet(t) == args[t][idx[t]]

\* Range going on whatever its visitor returns.
VisitorContinues_Ignored(t) == TRUE

\* Copy's visitor returning false.
VisitorContinues_CopyStops(t) ==
    IF op[t] = "Range" THEN Cardinality(seen[t]) + 1 # stop[t] ELSE op[t] # "Copy"

\* The visitor's verdict on the next member: Copy's, Union's and Diff's
\* always return true, the caller's returns false at call number stop[t].
VisitorContinues(t) ==
    IF op[t] = "Range" THEN Cardinality(seen[t]) + 1 # stop[t] ELSE TRUE

\* Diff's visitor with its test inverted ("ok" for "!ok").
VisitorPuts_DiffInverted(t, e) ==
    CASE op[t] = "Copy" -> {e}
      [] op[t] = "Union" -> {e}
      [] op[t] = "Diff" -> IF e \in m[args[t][2]] THEN {e} ELSE {}
      [] OTHER -> {}

\* What the visitor puts into the Set the call builds, given member e.
VisitorPuts(t, e) ==
    CASE op[t] = "Copy" -> {e}
      [] op[t] = "Union" -> {e}
      [] op[t] = "Diff" -> IF e \in m[args[t][2]] THEN {} ELSE {e}
      [] OTHER -> {}

\* Where f(e) leads: into the Put or Delete the visitor calls, or straight
\* back into the loop, which goes on if f returned true and a member is left.
VisitorGoes(t, more) ==
    CASE op[t] = "RangePut" -> "put_lock"
      [] op[t] = "RangeDelete" -> "delete_lock"
      [] OTHER -> IF VisitorContinues(t) /\ more THEN "range_loop" ELSE "range_runlock"

\* Range without s.mu.RLock().
RangeRLock_NoLock(t) ==
    /\ At(t, "range_rlock")
    /\ Goto(t, "range_loop")
    /\ UNCHANGED <<m, lockVars, localVars, idx, small, seen, ret, sb, lastPut, ord>>

RangeRLock(t) ==
    /\ At(t, "range_rlock")
    /\ RLock(t, RangeSet(t))
    /\ Goto(t, "range_loop")
    /\ UNCHANGED <<m, localVars, idx, small, seen, ret, sb, lastPut>>

\* One iteration of "for e := range s.m { if !f(e) { break } }"; the loop is
\* left after the last member, or when f returns false.
RangeIter(t) ==
    /\ At(t, "range_loop")
    /\ LET rest == m[RangeSet(t)] \ seen[t] IN
       IF rest = {}
       THEN /\ Goto(t, "range_runlock")
            /\ UNCHANGED <<m, seen>>
       ELSE \E e \in rest :
            /\ seen' = [seen EXCEPT ![t] = @ \cup {e}]
            /\ m' = [m EXCEPT ![Fresh(t)] = @ \cup VisitorPuts(t, e)]
            /\ Goto(t, VisitorGoes(t, rest # {e}))
    /\ UNCHANGED <<lockVars, localVars, idx, small, ret, sb, lastPut, ord>>

\* Union returning after the Range over its first set.
RangeRUnlock_FirstSetOnly(t) ==
    /\ At(t, "range_runlock")
    /\ RUnlock(t, RangeSet(t))
    /\ Goto(t, IF op[t] = "Diff" THEN "diff_runlock" ELSE "ret")
    /\ UNCHANGED <<m, localVars, idx, small, seen, ret, sb, lastPut, ord>>

\* Range's deferred RUnlock, and the return to its caller: Range and Copy
\* return, Diff goes on to its own deferred RUnlock, Union to its next set.
RangeRUnlock(t) ==
    /\ At(t, "range_runlock")
    /\ RUnlock(t, RangeSet(t))
    /\ IF op[t] = "Union" /\ idx[t] < Len(args[t])
       THEN /\ idx' = [idx EXCEPT ![t] = @ + 1]
            /\ seen' = [seen EXCEPT ![t] = {}]
            /\ Goto(t, "range_rlock")
       ELSE /\ Goto(t, IF op[t] = "Diff" THEN "diff_runlock" ELSE "ret")
            /\ UNCHANGED <<idx, seen>>
    /\ UNCHANGED <<m, localVars, small, ret, sb, lastPut, ord>>

\* ----------------------------------------------------------------- Diff

\* t.mu.RLock(), then d := New() and s.Range(...)
DiffRLock(t) ==
    /\ At(t, "diff_rlock")
    /\ RLock(t, args[t][2])
    /\ Goto(t, "range_rlock")
    /\ UNCHANGED <<m, localVars, idx, small, seen, ret, sb, lastPut>>

\* the deferred t.mu.RUnlock()
DiffRUnlock(t) ==
    /\ At(t, "diff_runlock")
    /\ RUnlock(t, args[t][2])
    /\ Goto(t, "ret")
    /\ UNCHANGED <<m, localVars, idx, small, seen, ret, sb, lastPut, ord>>

\* --------------------------------------------------------------- String

StringRLock(t) ==
    /\ At(t, "string_rlock")
    /\ RLock(t, args[t][1])
    /\ Goto(t, "string_loop")
    /\ UNCHANGED <<m, localVars, idx, small, seen, ret, sb, lastPut>>

\* fmt.Fprint(&sb, e)
Fprint(e) == ToString(e)

\* sb.WriteRune('{') before the first iteration, one iteration of the loop
\* (i++, the element, ", " if i < len(s.m)), sb.WriteRune('}') after the last.
StringIter(t) ==
    /\ At(t, "string_loop")
    /\ LET s == args[t][1]
           rest == m[s] \ seen[t]
           open == IF seen[t] = {} THEN <<"{">> ELSE <<>>
       IN
       IF rest = {}
       THEN /\ sb' = [sb EXCEPT ![t] = @ \o open \o <<"}">>]
            /\ UNCHANGED seen
            /\ Goto(t, "string_runlock")
       ELSE \E e \in rest :
            LET i == Cardinality(seen[t]) + 1
                sep == IF i < Cardinality(m[s]) THEN <<", ">> ELSE <<>>
                close == IF rest = {e} THEN <<"}">> ELSE <<>>
            IN
            /\ sb' = [sb EXCEPT ![t] = @ \o open \o <<Fprint(e)>> \o sep \o close]
            /\ seen' = [seen EXCEPT ![t] = @ \cup {e}]
            /\ Goto(t, IF rest = {e} THEN "string_runlock" ELSE "string_loop")
    /\ UNCHANGED <<m, lockVars, localVars, idx, small, ret, lastPut, ord>>

StringRUnlock(t) ==
    /\ At(t, "string_runlock")
    /\ RUnlock(t, args[t][1])
    /\ Goto(t, "ret")
    /\ UNCHANGED <<m, localVars, idx, small, seen, ret, sb, lastPut, ord>>

\* ------------------------------------------------------ Subset and Equal
\* Both take s.mu.RLock() and then t.mu.RLock(), loop over s.m probing t.m,
\* and release in the reverse order (the deferred calls).

CmpRLockS(t) ==
    /\ At(t, "cmp_rlock_s")
    /\ RLock(t, args[t][1])
    /\ Goto(t, "cmp_rlock_t")
    /\ UNCHANGED <<m, localVars, idx, small, seen, ret, sb, lastPut>>

\* Subset and Equal without t.mu.RLock().
CmpRLockT_NoLock(t) ==
    /\ At(t, "cmp_rlock_t")
    /\ Goto(t, IF op[t] = "Equal" THEN "equal_len" ELSE "cmp_loop")
    /\ UNCHANGED <<m, lockVars, localVars, idx, small, seen, ret, sb, lastPut, ord>>

CmpRLockT(t) ==
    /\ At(t, "cmp_rlock_t")
    /\ RLock(t, args[t][2])
    /\ Goto(t, IF op[t] = "Equal" THEN "equal_len" ELSE "cmp_loop")
    /\ UNCHANGED <<m, localVars, idx, small, seen, ret, sb, lastPut>>

\* Equal without its comparison of the sizes.
EqualLen_NoCheck(t) ==
    /\ At(t, "equal_len")
    /\ Goto(t, "cmp_loop")
    /\ UNCHANGED <<m, lockVars, localVars, idx, small, seen, ret, sb, lastPut, ord>>

\* Equal returning early only when s is the smaller set.
EqualLen_LessOnly(t) ==
    /\ At(t, "equal_len")
    /\ IF LenValue(args[t][1]) < LenValue(args[t][2])
       THEN /\ ret' = [ret EXCEPT ![t] = FALSE]
            /\ Goto(t, "cmp_runlock_t")
       ELSE /\ UNCHANGED ret
            /\ Goto(t, "cmp_loop")
    /\ UNCHANGED <<m, lockVars, localVars, idx, small, seen, sb, lastPut, ord>>

\* Equal returning on differing sizes without releasing its locks.
EqualLen_ReturnsLocked(t) ==
    /\ At(t, "equal_len")
    /\ IF LenValue(args[t][1]) # LenValue(args[t][2])
       THEN /\ ret' = [ret EXCEPT ![t] = FALSE]
            /\ Goto(t, "ret")
       ELSE /\ UNCHANGED ret
            /\ Goto(t, "cmp_loop")
    /\ UNCHANGED <<m, lockVars, localVars, idx, small, seen, sb, lastPut, ord>>

\* Equal: if len(s.m) != len(t.m) { return false }
EqualLen(t) ==
    /\ At(t, "equal_len")
    /\ IF LenValue(args[t][1]) # LenValue(args[t][2])
       THEN /\ ret' = [ret EXCEPT ![t] = FALSE]
            /\ Goto(t, "cmp_runlock_t")
       ELSE /\ UNCHANGED ret
            /\ Goto(t, "cmp_loop")
    /\ UNCHANGED <<m, lockVars, localVars, idx, small, seen, sb, lastPut, ord>>

\* The loop returning true at the first member of s.m that t.m has.
CmpIter_TrueAtFirstHit(t) ==
    /\ At(t, "cmp_loop")
    /\ LET rest == m[args[t][1]] \ seen[t] IN
       IF rest = {}
       THEN /\ ret' = [ret EXCEPT ![t] = TRUE]
            /\ UNCHANGED seen
       ELSE \E e \in rest :
            /\ seen' = [seen EXCEPT ![t] = @ \cup {e}]
            /\ ret' = [ret EXCEPT ![t] = e \in m[args[t][2]]]
    /\ Goto(t, "cmp_runlock_t")
    /\ UNCHANGED <<m, lockVars, localVars, idx, small, sb, lastPut, ord>>

\* One iteration of "for e := range s.m { if _, ok := t.m[e]; !ok { return
\* false } }", and "return true" after the last.
CmpIter(t) ==
    /\ At(t, "cmp_loop")
    /\ LET rest == m[args[t][1]] \ seen[t] IN
       IF rest = {}
       THEN /\ ret' = [ret EXCEPT ![t] = TRUE]
            /\ UNCHANGED seen
            /\ Goto(t, "cmp_runlock_t")
       ELSE \E e \in rest :
            /\ seen' = [seen EXCEPT ![t] = @ \cup {e}]
            /\ IF e \notin m[args[t][2]]
               THEN /\ ret' = [ret EXCEPT ![t] = FALSE]
                    /\ Goto(t, "cmp_runlock_t")
               ELSE IF rest = {e}
               THEN /\ ret' = [ret EXCEPT ![t] = TRUE]
                    /\ Goto(t, "cmp_runlock_t")
               ELSE /\ UNCHANGED ret
                    /\ Goto(t, "cmp_loop")
    /\ UNCHANGED <<m, lockVars, localVars, idx, small, sb, lastPut, ord>>

CmpRUnlockT(t) ==
    /\ At(t, "cmp_runlock_t")
    /\ RUnlock(t, args[t][2])
    /\ Goto(t, "cmp_runlock_s")
    /\ UNCHANGED <<m, localVars, idx, small, seen, ret, sb, lastPut, ord>>

CmpRUnlockS(t) ==
    /\ At(t, "cmp_runlock_s")
    /\ RUnlock(t, args[t][1])
    /\ Goto(t, "ret")
    /\ UNCHANGED <<m, localVars, idx, small, seen, ret, sb, lastPut, ord>>

\* --------------------------------------------------------- Intersection

\* "for _, s := range sets { s.mu.RLock(); defer s.mu.RUnlock(); ..."
InterRLock(t) ==
    /\ At(t, "inter_rlock")
    /\ RLock(t, args[t][idx[t]])
    /\ Goto(t, "inter_smallest")
    /\ UNCHANGED <<m, localVars, idx, small, seen, ret, sb, lastPut>>

\* "... if len(s.m) < len(smallest.m) { smallest = s } }"
InterSmallest(t) ==
    /\ At(t, "inter_smallest")
    /\ small' = [small EXCEPT ![t] =
                   IF LenValue(args[t][idx[t]]) < LenValue(@) THEN args[t][idx[t]] ELSE @]
    /\ IF idx[t] < Len(args[t])
       THEN /\ idx' = [idx EXCEPT ![t] = @ + 1]
            /\ Goto(t, "inter_rlock")
       ELSE /\ UNCHANGED idx
            /\ Goto(t, "inter_loop")
    /\ UNCHANGED <<m, lockVars, localVars, seen, ret, sb, lastPut, ord>>

\* The probe taking e when some set has it.
InAll_SomeSet(t, e) == \E j \in 1..Len(args[t]) : e \in m[args[t][j]]

\* Every set of the call has e (no "continue next").
InAll(t, e) == \A j \in 1..Len(args[t]) : e \in m[args[t][j]]

\* One iteration of "for e := range smallest.m": e goes into i.m unless
\* some set lacks it.  After the last, the deferred RUnlocks run, last first.
InterIter(t) ==
    /\ At(t, "inter_loop")
    /\ LET rest == m[small[t]] \ seen[t] IN
       IF rest = {}
       THEN /\ UNCHANGED <<m, seen>>
            /\ Goto(t, "inter_runlock")
       ELSE \E e \in rest :
            /\ seen' = [seen EXCEPT ![t] = @ \cup {e}]
            /\ m' = [m EXCEPT ![Fresh(t)] = IF InAll(t, e) THEN @ \cup {e} ELSE @]
            /\ Goto(t, IF rest = {e} THEN "inter_runlock" ELSE "inter_loop")
    /\ UNCHANGED <<lockVars, localVars, idx, small, ret, sb, lastPut, ord>>

InterRUnlock(t) ==
    /\ At(t, "inter_runlock")
    /\ RUnlock(t, args[t][idx[t]])
    /\ IF idx[t] > 1
       THEN /\ idx' = [idx EXCEPT ![t] = @ - 1]
            /\ UNCHANGED pc
       ELSE /\ UNCHANGED idx
            /\ Goto(t, "ret")
    /\ UNCHANGED <<m, localVars, small, seen, ret, sb, lastPut, ord>>

\* ------------------------------------------------------- specifications

\* The lists of at most n of the sets S.
SeqsOf(S, n) == UNION {[1..k -> S] : k \in 0..n}

MutatorSteps(t) ==
    \/ PutLock(t) \/ PutWrite(t) \/ PutUnlock(t)
    \/ DeleteLock(t) \/ DeleteWrite(t) \/ DeleteUnlock(t)

HasSteps(t) == HasRLock(t) \/ HasRead(t) \/ HasRUnlock(t)

ReaderSteps(t) ==
    \/ LenRLock(t) \/ LenRead(t) \/ LenRUnlock(t)
    \/ RangeRLock(t) \/ RangeIter(t) \/ RangeRUnlock(t)
    \/ StringRLock(t) \/ StringIter(t) \/ StringRUnlock(t)

CmpSteps(t) ==
    \/ CmpRLockS(t) \/ CmpRLockT(t) \/ EqualLen(t) \/ CmpIter(t)
    \/ CmpRUnlockT(t) \/ CmpRUnlockS(t)

DiffSteps(t) == DiffRLock(t) \/ DiffRUnlock(t)

InterSteps(t) == InterRLock(t) \/ InterSmallest(t) \/ InterIter(t) \/ InterRUnlock(t)

\* t calls Put, Delete or Has on one of the sets S with an element of E.
InvokeMutator(t, S, E) ==
    \E s \in S, e \in E :
        \/ Invoke(t, "Put", <<s>>, e, 0)
        \/ Invoke(t, "Delete", <<s>>, e, 0)
        \/ Invoke(t, "Has", <<s>>, e, 0)

\* t calls one of the reading operations on sets of S; a visitor of Range
\* returns false at one of its first calls, or never (0).
InvokeReader(t, S, E, n) ==
    \/ \E s \in S :
           \/ Invoke(t, "Len", <<s>>, 0, 0)
           \/ Invoke(t, "Copy", <<s>>, 0, 0)
           \/ Invoke(t, "String", <<s>>, 0, 0)
           \/ \E k \in 0..Cardinality(E) : Invoke(t, "Range", <<s>>, 0, k)
    \/ \E s \in S, u \in S :
           \/ Invoke(t, "Subset", <<s, u>>, 0, 0)
           \/ Invoke(t, "Equal", <<s, u>>, 0, 0)
           \/ Invoke(t, "Diff", <<s, u>>, 0, 0)
    \/ \E a \in SeqsOf(S, n) :
           \/ Invoke(t, "Union", a, 0, 0)
           \/ Invoke(t, "Intersection", a, 0, 0)

AllSteps(t) ==
    \/ MutatorSteps(t) \/ HasSteps(t) \/ ReaderSteps(t)
    \/ CmpSteps(t) \/ DiffSteps(t) \/ InterSteps(t)
    \/ Return(t)

\* Goroutine 1 runs any operation while goroutine 2 puts and deletes
\* elements: every pair of a mutation and another operation on two shared
\* Sets, in every interleaving.
Next ==
    \/ InvokeMutator(1, ConcShared, ConcElems)
    \/ InvokeReader(1, ConcShared, ConcElems, MaxConcArgs)
    \/ AllSteps(1)
    \/ \E s \in ConcShared, e \in ConcElems :
           \/ Invoke(2, "Put", <<s>>, e, 0)
           \/ Invoke(2, "Delete", <<s>>, e, 0)
    \/ MutatorSteps(2) \/ Return(2)

Spec == Init /\ [][Next]_vars

\* t calls Range on one of the sets S with a visitor that puts an element
\* of E into the same set, or deletes it from it.
InvokeReentrant(t, S, E) ==
    \E s \in S, e \in E :
        \/ Invoke(t, "RangePut", <<s>>, e, 0)
        \/ Invoke(t, "RangeDelete", <<s>>, e, 0)

\* One goroutine alone runs any operation: no Set changes during a call,
\* unless Range's visitor is made to change it.
NextSeq ==
    \/ InvokeMutator(1, Shared, Elems)
    \/ InvokeReader(1, Shared, Elems, MaxArgs)
    \/ InvokeReentrant(1, Shared, Elems)
    \/ AllSteps(1)

SpecSeq == Init /\ [][NextSeq]_vars

\* Three goroutines put, delete and look up elements of one shared Set.
StressThreads == {1, 2, 3}
StressSet == 1

NextStress ==
    \E t \in StressThreads :
        \/ InvokeMutator(t, {StressSet}, ConcElems)
        \/ MutatorSteps(t) \/ HasSteps(t) \/ Return(t)

SpecStress == Init /\ [][NextStress]_vars

\* Two goroutines compare two distinct shared Sets (Subset, Equal, Diff, in
\* either argument order) while two others put an element into them.
Comparers == {1, 2}
Writers == {3, 4}

NextLocks ==
    \/ \E t \in Comparers :
           \/ \E s \in ConcShared : \E u \in ConcShared \ {s} :
                  \/ Invoke(t, "Subset", <<s, u>>, 0, 0)
                  \/ Invoke(t, "Equal", <<s, u>>, 0, 0)
                  \/ Invoke(t, "Diff", <<s, u>>, 0, 0)
           \/ CmpSteps(t) \/ DiffSteps(t)
           \/ RangeRLock(t) \/ RangeIter(t) \/ RangeRUnlock(t)
           \/ Return(t)
    \/ \E t \in Writers :
           \/ \E s \in ConcShared : Invoke(t, "Put", <<s>>, 1, 0)
           \/ PutLock(t) \/ PutWrite(t) \/ PutUnlock(t)
           \/ Return(t)

SpecLocks == Init /\ [][NextLocks]_vars

\* One caller's calls in a row, as in TestStuff: while the sets stand still
\* (goroutine 4 fills them only between the rounds) goroutine 1 calls Equal,
\* then goroutine 2 calls Subset or Equal, then goroutine 3 calls Subset; the
\* three results stand side by side until the round ends.
Filler == 4

NextRel ==
    \/ /\ \A t \in {1, 2, 3} : pc[t] = "idle"
       /\ \E s \in ConcShared, e \in ConcElems :
              \/ Invoke(Filler, "Put", <<s>>, e, 0)
              \/ Invoke(Filler, "Delete", <<s>>, e, 0)
    \/ MutatorSteps(Filler) \/ Return(Filler)
    \/ /\ pc[Filler] = "idle"
       /\ \E s \in ConcShared, u \in ConcShared : Invoke(1, "Equal", <<s, u>>, 0, 0)
    \/ /\ pc[1] = "ret"
       /\ \E s \in ConcShared, u \in ConcShared :
              \/ Invoke(2, "Subset", <<s, u>>, 0, 0)
              \/ Invoke(2, "Equal", <<s, u>>, 0, 0)
    \/ /\ pc[2] = "ret"
       /\ \E s \in ConcShared, u \in ConcShared : Invoke(3, "Subset", <<s, u>>, 0, 0)
    \/ \E t \in {1, 2, 3} : CmpSteps(t)
    \/ Return(3)
    \/ pc[3] = "idle" /\ Return(2)
    \/ pc[2] = "idle" /\ Return(1)

SpecRel == Init /\ [][NextRel]_vars

\* A Set and its copy: while the sets stand still (goroutine 4 fills them
\* only between the rounds) goroutine 1 calls c := s.Copy(); with c in hand,
\* goroutine 3 calls s.Equal(c) or c.Equal(s), and after that goroutine 2
\* puts elements into and deletes elements from s and c, call after call.
\* The round ends when the caller drops c.
Copier == 1
CopyMutator == 2
CopyComparer == 3

NextCopy ==
    \/ /\ \A t \in {Copier, CopyMutator, CopyComparer} : pc[t] = "idle"
       /\ \E s \in ConcShared, e \in ConcElems :
              \/ Invoke(Filler, "Put", <<s>>, e, 0)
              \/ Invoke(Filler, "Delete", <<s>>, e, 0)
    \/ MutatorSteps(Filler) \/ Return(Filler)
    \/ /\ pc[Filler] = "idle"
       /\ \E s \in ConcShared : Invoke(Copier, "Copy", <<s>>, 0, 0)
    \/ RangeRLock(Copier) \/ RangeIter(Copier) \/ RangeRUnlock(Copier)
    \/ /\ pc[Copier] = "ret"
       /\ pc[CopyMutator] = "idle"
       /\ \/ Invoke(CopyComparer, "Equal", <<args[Copier][1], Fresh(Copier)>>, 0, 0)
          \/ Invoke(CopyComparer, "Equal", <<Fresh(Copier), args[Copier][1]>>, 0, 0)
    \/ CmpSteps(CopyComparer)
    \/ /\ pc[Copier] = "ret"
       /\ pc[CopyComparer] = "ret"
       /\ \E x \in {args[Copier][1], Fresh(Copier)}, e \in ConcElems :
              \/ Invoke(CopyMutator, "Put", <<x>>, e, 0)
              \/ Invoke(CopyMutator, "Delete", <<x>>, e, 0)
    \/ MutatorSteps(CopyMutator) \/ Return(CopyMutator)
    \/ pc[CopyMutator] = "idle" /\ pc[CopyComparer] = "ret" /\ Return(Copier)
    \/ pc[Copier] = "idle" /\ Return(CopyComparer)

SpecCopy == Init /\ [][NextCopy]_vars

\* A mutation between observations, one caller's calls in a row: goroutine
\* HasBefore calls Has, then LenBefore calls Len, then Mutator calls Put or
\* Delete, then After calls Has or Len, each on any set with any element.
\* The four results stand side by side until the round ends; the next round
\* starts from the sets as this one left them.
Mutator == 1
HasBefore == 2
LenBefore == 3
After == 4

LenSteps(t) == LenRLock(t) \/ LenRead(t) \/ LenRUnlock(t)

NextRound ==
    \/ /\ pc[Mutator] = "idle" /\ pc[LenBefore] = "idle"
       /\ \E s \in ConcShared, e \in ConcElems : Invoke(HasBefore, "Has", <<s>>, e, 0)
    \/ /\ pc[Mutator] = "idle" /\ pc[HasBefore] = "ret"
       /\ \E s \in ConcShared : Invoke(LenBefore, "Len", <<s>>, 0, 0)
    \/ /\ pc[LenBefore] = "ret" /\ pc[HasBefore] = "ret"
       /\ \E s \in ConcShared, e \in ConcElems :
              \/ Invoke(Mutator, "Put", <<s>>, e, 0)
              \/ Invoke(Mutator, "Delete", <<s>>, e, 0)
    \/ /\ pc[Mutator] = "ret" /\ pc[LenBefore] = "ret" /\ pc[HasBefore] = "ret"
       /\ \/ \E s \in ConcShared, e \in ConcElems : Invoke(After, "Has", <<s>>, e, 0)
          \/ \E s \in ConcShared : Invoke(After, "Len", <<s>>, 0, 0)
    \/ HasSteps(HasBefore) \/ LenSteps(LenBefore) \/ MutatorSteps(Mutator)
    \/ HasSteps(After) \/ LenSteps(After)
    \/ Return(After)
    \/ pc[Mutator] = "ret" /\ pc[After] = "idle" /\ Return(HasBefore)
    \/ pc[Mutator] = "ret" /\ pc[HasBefore] = "idle" /\ Return(LenBefore)
    \/ pc[LenBefore] = "idle" /\ pc[After] = "idle" /\ Return(Mutator)

SpecRound == Init /\ [][NextRound]_vars

\* ------------------------------------------------------- table accesses

InCall(t) == pc[t] \notin {"idle", "ret"}

\* The members the loop t stands in has not yielded yet.
Rest(t, s) == m[s] \ seen[t]

\* The Sets whose table the step goroutine t is about to take reads; a
\* goroutine between calls, or asleep in RLock or Lock, is about to take
\* none.
Reads(t) ==
    IF ~InCall(t) \/ Blocked(t) THEN {}
    ELSE CASE pc[t] \in {"has_read", "len_read"} -> {args[t][1]}
           [] pc[t] = "range_loop" ->
                  {RangeSet(t)} \cup
                  (IF op[t] = "Diff" /\ Rest(t, RangeSet(t)) # {} THEN {args[t][2]} ELSE {})
           [] pc[t] = "string_loop" -> {args[t][1]}
           [] pc[t] = "equal_len" -> {args[t][1], args[t][2]}
           [] pc[t] = "cmp_loop" ->
                  {args[t][1]} \cup
                  (IF Rest(t, args[t][1]) # {} THEN {args[t][2]} ELSE {})
           [] pc[t] = "inter_smallest" -> {args[t][idx[t]], small[t]}
           [] pc[t] = "inter_loop" ->
                  {small[t]} \cup
                  (IF Rest(t, small[t]) # {}
                   THEN {args[t][j] : j \in 1..Len(args[t])} ELSE {})
           [] OTHER -> {}

\* The Sets whose table the step goroutine t is about to take may write.
Writes(t) ==
    IF ~InCall(t) \/ Blocked(t) THEN {}
    ELSE CASE pc[t] \in {"put_write", "delete_write"} -> {args[t][1]}
           [] pc[t] = "range_loop" ->
                  IF \E e \in Rest(t, RangeSet(t)) : VisitorPuts(t, e) # {}
                  THEN {Fresh(t)} ELSE {}
           [] pc[t] = "inter_loop" ->
                  IF \E e \in Rest(t, small[t]) : InAll(t, e) THEN {Fresh(t)} ELSE {}
           [] OTHER -> {}

\* --------------------------------------------------------------- claims

\* C1: no goroutine is about to write a Set's table (inside Put or Delete)
\* while another goroutine is about to read or write the table of the same
\* Set.
C1_NoDataRace ==
    \A t \in Threads : \A u \in Threads \ {t} :
        Writes(t) \cap (Reads(u) \cup Writes(u)) = {}

\* C1 witness: a goroutine is inside Put's or Delete's write section of a
\* Set while another goroutine, wanting to read the same Set, sleeps in RLock.
C1_Witness ==
    \E t \in Threads : \E u \in Threads \ {t}, s \in ConcShared :
        /\ s \in Writes(t)
        /\ u \in rwait[s]
        /\ pc[u] \in {"has_read", "range_loop", "cmp_rlock_t", "inter_smallest"}

AllReturned == \A t \in Threads : ~InCall(t)

\* C2: once every goroutine has finished its calls, an element is a member
\* of the shared Set iff the last mutation of it to take the exclusive lock
\* was a Put, and Len() is the number of such elements.
C2_StressOutcome ==
    AllReturned =>
        /\ \A e \in ConcElems : (e \in m[StressSet]) = lastPut[StressSet][e]
        /\ LenValue(StressSet) =
               Cardinality({e \in ConcElems : lastPut[StressSet][e]})

\* C2 witness: three goroutines have returned from a Put, a Delete and a Has
\* of the same element, the Delete having taken the lock last although the
\* element was a member when Has looked.
C2_Witness ==
    /\ \A t \in StressThreads : pc[t] = "ret"
    /\ op[1] = "Put" /\ op[2] = "Delete" /\ op[3] = "Has"
    /\ el[1] = el[2] /\ el[2] = el[3]
    /\ ret[3] = TRUE
    /\ ~lastPut[StressSet][el[1]]
    /\ m[StressSet] = ConcElems \ {el[1]}

\* A goroutine inside a call that can take its next step: it is awake, and
\* if it stands before Lock no other writer is inside.
CanStep(t) ==
    /\ InCall(t)
    /\ ~Blocked(t)
    /\ pc[t] \in {"put_lock", "delete_lock"} => w[args[t][1]] = NoThread

\* C3: the goroutines inside a call never all wait on each other's locks:
\* while some call has not returned, some goroutine inside a call can take
\* a step (so that, scheduled fairly, every call returns).
C3_NoDeadlock ==
    (\E t \in Threads : InCall(t)) => \E t \in Threads : CanStep(t)

\* C4: no two calls take the locks of two distinct Sets in opposite orders.
C4_ConsistentLockOrder ==
    \A t \in Threads, u \in Threads :
        \A p \in ord[t] : <<p[2], p[1]>> \notin ord[u]

\* C5 as amended: every read of the table of a shared Set (a receiver or an
\* argument) is made by a goroutine holding that Set's lock, shared or
\* exclusive, and every write to it by a goroutine holding it exclusive.
C5_InputLockDiscipline ==
    \A t \in Threads, s \in Shared :
        /\ s \in Reads(t) => HoldsShared(t, s) \/ HoldsExclusive(t, s)
        /\ s \in Writes(t) => HoldsExclusive(t, s)

\* C5 witness: a goroutine is about to read a shared Set holding its lock
\* shared, and to write what it read into the Set it builds.
C5_Witness ==
    \E t \in Threads, s \in Shared :
        /\ s \in Reads(t)
        /\ HoldsShared(t, s)
        /\ Fresh(t) \in Writes(t)

\* C5 as claimed: the same of every Set, the one the operation builds
\* (New, Copy, Union, Intersection, Diff) included.
C5_EveryTableLockDiscipline ==
    \A t \in Threads, s \in AllSets :
        /\ s \in Reads(t) => HoldsShared(t, s) \/ HoldsExclusive(t, s)
        /\ s \in Writes(t) => HoldsExclusive(t, s)

\* The goroutine that runs alone.
Solo == 1

Returned(t, o) == pc[t] = "ret" /\ op[t] = o

\* The sets of t's call.
ArgSets(t) == {args[t][j] : j \in 1..Len(args[t])}

\* C6: Intersection(s1..sn) of sets that stand still during the call has
\* exactly the elements that every si has, and none when n = 0; so
\* Intersection() has Len 0 and Intersection(s) has the members of s.
C6_IntersectionMembership ==
    Returned(Solo, "Intersection") =>
        /\ \A e \in Elems :
               e \in m[Fresh(Solo)] <=>
                   Len(args[Solo]) >= 1 /\ \A s \in ArgSets(Solo) : e \in m[s]
        /\ m[Fresh(Solo)] \subseteq Elems
        /\ Len(args[Solo]) = 0 => LenValue(Fresh(Solo)) = 0
        /\ Len(args[Solo]) = 1 => m[Fresh(Solo)] = m[args[Solo][1]]

\* C6 witness: Intersection of two distinct sets has returned; the smallest
\* was not the first, and the result is neither empty nor the first set.
C6_Witness ==
    /\ Returned(Solo, "Intersection")
    /\ Len(args[Solo]) = 2
    /\ args[Solo][1] # args[Solo][2]
    /\ small[Solo] # args[Solo][1]
    /\ m[Fresh(Solo)] # {}
    /\ m[Fresh(Solo)] # m[args[Solo][1]]

\* C7: Union(s1..sn) of sets that stand still during the call has exactly
\* the elements that some si has; Union() has Len 0.
C7_UnionMembership ==
    Returned(Solo, "Union") =>
        /\ \A e \in Elems :
               e \in m[Fresh(Solo)] <=> \E s \in ArgSets(Solo) : e \in m[s]
        /\ m[Fresh(Solo)] \subseteq Elems
        /\ Len(args[Solo]) = 0 => LenValue(Fresh(Solo)) = 0

\* C7 witness: Union of two sets has returned, each having given the result
\* an element the other lacks.
C7_Witness ==
    /\ Returned(Solo, "Union")
    /\ Len(args[Solo]) = 2
    /\ m[args[Solo][1]] \ m[args[Solo][2]] # {}
    /\ m[args[Solo][2]] \ m[args[Solo][1]] # {}
    /\ m[Fresh(Solo)] = m[args[Solo][1]] \cup m[args[Solo][2]]

\* C8: s.Diff(t), s and t standing still during the call, has exactly the
\* elements of s that t lacks: all of s when t is empty, and whatever else
\* t has changes nothing.
C8_DiffMembership ==
    Returned(Solo, "Diff") =>
        /\ \A e \in Elems :
               e \in m[Fresh(Solo)] <=>
                   e \in m[args[Solo][1]] /\ e \notin m[args[Solo][2]]
        /\ m[Fresh(Solo)] \subseteq Elems
        /\ m[args[Solo][2]] = {} => m[Fresh(Solo)] = m[args[Solo][1]]
        /\ m[Fresh(Solo)] = m[args[Solo][1]] \ (m[args[Solo][2]] \cap m[args[Solo][1]])

\* C8 witness: s.Diff(t) has returned some but not all of the members of s.
C8_Witness ==
    /\ Returned(Solo, "Diff")
    /\ m[Fresh(Solo)] # {}
    /\ m[Fresh(Solo)] # m[args[Solo][1]]

\* C9: s.Subset(t), s and t standing still during the call, returns true iff
\* t has every member of s: always for an empty s, and for t = s.
C9_SubsetResult ==
    Returned(Solo, "Subset") =>
        /\ ret[Solo] = (m[args[Solo][1]] \subseteq m[args[Solo][2]])
        /\ m[args[Solo][1]] = {} => ret[Solo] = TRUE
        /\ args[Solo][1] = args[Solo][2] => ret[Solo] = TRUE

\* C9 witness: s.Subset(t) has returned false after a probe that found a
\* member of s in t.
C9_Witness ==
    /\ Returned(Solo, "Subset")
    /\ ret[Solo] = FALSE
    /\ seen[Solo] \cap m[args[Solo][2]] # {}

\* The results of the three calls of a round stand.
RoundDone == \A t \in {1, 2, 3} : pc[t] = "ret"

\* C10: with s and t standing still, s.Equal(t) returns true iff s and t
\* have the same members, iff s.Subset(t) and t.Subset(s) both return true,
\* and t.Equal(s) returns the same.
C10_EqualSubsetRelation ==
    RoundDone =>
        LET s == args[1][1]
            u == args[1][2]
        IN
        /\ ret[1] = (m[s] = m[u])
        /\ (op[2] = "Subset" /\ args[2] = <<s, u>> /\ args[3] = <<u, s>>)
               => ret[1] = (ret[2] /\ ret[3])
        /\ (op[2] = "Equal" /\ args[2] = <<u, s>>) => ret[1] = ret[2]

\* C10 witness: s.Equal(t) has returned false for two sets of the same size
\* (the probes decided), and s.Subset(t) and t.Subset(s) have returned false
\* too.
C10_Witness ==
    /\ RoundDone
    /\ op[2] = "Subset"
    /\ args[2] = args[1]
    /\ args[3] = <<args[1][2], args[1][1]>>
    /\ LenValue(args[1][1]) = LenValue(args[1][2])
    /\ ret[1] = FALSE /\ ret[2] = FALSE /\ ret[3] = FALSE

\* The copy goroutine Copier holds, and the Set it was copied from.
CopyOf == Fresh(Copier)
CopySource == args[Copier][1]

\* C11: c := s.Copy() of a set that stands still makes s.Equal(c) and
\* c.Equal(s) called next return true; and whatever is then put into or
\* deleted from c leaves the members of s as they were, whatever is put into
\* or deleted from s leaves the members of c as they were, and the exclusive
\* lock of the one is not the lock of the other.
C11_CopyIndependence ==
    /\ [](Returned(Copier, "Copy") =>
            /\ Returned(CopyComparer, "Equal") => ret[CopyComparer] = TRUE
            /\ \A x \in {CopyOf, CopySource} :
                   w[x] = CopyMutator => \A y \in AllSets \ {x} : w[y] # CopyMutator)
    /\ [][(/\ Returned(Copier, "Copy")
           /\ pc[CopyMutator] \in {"put_write", "delete_write"}
           /\ pc'[CopyMutator] # pc[CopyMutator])
          => /\ args[CopyMutator][1] = CopyOf => m'[CopySource] = m[CopySource]
             /\ args[CopyMutator][1] = CopySource => m'[CopyOf] = m[CopyOf]]_vars

\* C11 witness: s.Equal(c) has returned true for a copy of a set with a
\* member, and since then a Put on c and a Delete on s have left c and s with
\* different members, c keeping the member deleted from s.
C11_Witness ==
    /\ Returned(Copier, "Copy")
    /\ Returned(CopyComparer, "Equal") /\ ret[CopyComparer] = TRUE
    /\ Returned(CopyMutator, "Delete")
    /\ args[CopyMutator][1] = CopySource
    /\ el[CopyMutator] \in seen[Copier]
    /\ el[CopyMutator] \in m[CopyOf]
    /\ el[CopyMutator] \notin m[CopySource]
    /\ m[CopyOf] # seen[Copier]

\* The four results of a round stand.
ObservedRound == \A t \in {Mutator, HasBefore, LenBefore, After} : pc[t] = "ret"

\* C12: Has(e) called right after Put(e) on the same set returns true, and
\* right after Delete(e) false (also when e was a member before, put there by
\* an earlier Put); Has of any other element, or of any element of another
\* set, returns after the Put or Delete what it returned before.
C12_MembershipRoundTrip ==
    (ObservedRound /\ op[After] = "Has") =>
        LET same == args[After] = args[Mutator] /\ el[After] = el[Mutator] IN
        /\ same => ret[After] = (op[Mutator] = "Put")
        /\ (~same /\ args[After] = args[HasBefore] /\ el[After] = el[HasBefore])
               => ret[After] = ret[HasBefore]

\* C12 witness: Has(e) returned true, Delete(e) came next on the same set,
\* and Has(e) has returned false.
C12_Witness ==
    /\ ObservedRound
    /\ op[Mutator] = "Delete" /\ op[After] = "Has"
    /\ args[HasBefore] = args[Mutator] /\ args[After] = args[Mutator]
    /\ el[HasBefore] = el[Mutator] /\ el[After] = el[Mutator]
    /\ ret[HasBefore] = TRUE
    /\ ret[After] = FALSE

\* What Put or Delete of an element adds to the size of a set in which the
\* element was (present) or was not a member.
SizeChange(o, present) ==
    CASE o = "Put" /\ ~present -> 1
      [] o = "Delete" /\ present -> 0 - 1
      [] OTHER -> 0

\* C13: Len() returns the number of distinct elements of the set.  With
\* Has(e) and Len() called before Put(e) or Delete(e) on the same set and
\* Len() or Has(e) after: Put of a member and Delete of a non-member leave
\* Len and the membership of e as they were, Put of a non-member makes Len
\* one more, Delete of a member one less.
C13_IdempotenceAndSize ==
    ObservedRound =>
        LET sameSet == /\ args[HasBefore] = args[Mutator]
                       /\ args[LenBefore] = args[Mutator]
                       /\ args[After] = args[Mutator]
            sameEl == el[HasBefore] = el[Mutator]
            noChange == SizeChange(op[Mutator], ret[HasBefore]) = 0
        IN
        /\ op[After] = "Len" => ret[After] = Cardinality(m[args[After][1]])
        /\ ret[LenBefore] \in 0..Cardinality(ConcElems)
        /\ (sameSet /\ sameEl /\ op[After] = "Len")
               => ret[After] = ret[LenBefore] + SizeChange(op[Mutator], ret[HasBefore])
        /\ (sameSet /\ sameEl /\ noChange /\ op[After] = "Has" /\ el[After] = el[Mutator])
               => ret[After] = ret[HasBefore]

\* C13 witness: on a set with one member, Put of that member has left Len
\* at 1; the set had been larger before (a Delete made it smaller).
C13_Witness ==
    /\ ObservedRound
    /\ op[Mutator] = "Put" /\ op[After] = "Len"
    /\ args[HasBefore] = args[Mutator] /\ args[LenBefore] = args[Mutator]
    /\ args[After] = args[Mutator]
    /\ el[HasBefore] = el[Mutator]
    /\ ret[HasBefore] = TRUE
    /\ ret[LenBefore] = 1 /\ ret[After] = 1
    /\ \E e \in ConcElems \ {el[Mutator]} : ~lastPut[args[Mutator][1]][e]

\* C14: s.Range(f) on a set that stands still during the call calls f on
\* members of s only, each at most once; with f returning true every time,
\* on every member; with f returning false at its k-th call, on exactly k
\* members, and then Range returns.
C14_RangeVisits ==
    Returned(Solo, "Range") =>
        LET s == args[Solo][1]
            k == stop[Solo]
        IN
        /\ seen[Solo] \subseteq m[s]
        /\ (k = 0 \/ k > LenValue(s)) => seen[Solo] = m[s]
        /\ k \in 1..LenValue(s) => Cardinality(seen[Solo]) = k

\* C14 witness: Range over a set of two members has returned after its
\* visitor returned false at the first call.
C14_Witness ==
    /\ Returned(Solo, "Range")
    /\ stop[Solo] = 1
    /\ LenValue(args[Solo][1]) = 2
    /\ Cardinality(seen[Solo]) = 1

\* Set s's lock is free: no shared holder, no exclusive holder, nobody asleep.
LockFree(s) == ActiveReaders(s) = {} /\ w[s] = NoThread /\ rwait[s] = {}

\* C15: a goroutine that is not inside a call (it has returned from one,
\* on whatever path, or has not called yet) holds no lock and waits for
\* none; and when no goroutine is inside a call every Set's lock is free,
\* so that a Put or Delete that follows takes it.
C15_LocksReleased ==
    /\ \A t \in Threads : ~InCall(t) =>
           \A s \in AllSets : readers[s][t] = 0 /\ w[s] # t /\ t \notin rwait[s]
    /\ AllReturned => \A s \in AllSets : LockFree(s)

\* C15 witness: Equal has returned false on two sets of different sizes
\* without a probe, a Put by another goroutine has returned too, and every
\* lock is free.
C15_Witness ==
    /\ Returned(1, "Equal") /\ ret[1] = FALSE /\ seen[1] = {}
    /\ args[1][1] # args[1][2]
    /\ Returned(2, "Put")
    /\ AllReturned
    /\ \A s \in AllSets : LockFree(s)

\* C16: s.Equal(t) on sets of different sizes returns false without having
\* probed t for any member of s; it probes only when the sizes are equal.
C16_EqualShortCircuit ==
    Returned(Solo, "Equal") =>
        LET differ == LenValue(args[Solo][1]) # LenValue(args[Solo][2]) IN
        /\ differ => ret[Solo] = FALSE /\ seen[Solo] = {}
        /\ seen[Solo] # {} => ~differ

\* C16 witness: Equal has returned false without a probe on a set of two
\* members and a set of one of them.
C16_Witness ==
    /\ Returned(Solo, "Equal")
    /\ LenValue(args[Solo][1]) = 2
    /\ LenValue(args[Solo][2]) = 1
    /\ ret[Solo] = FALSE
    /\ seen[Solo] = {}

\* C17: once the visitor of s.Range has been called and calls s.Put or
\* s.Delete, the goroutine stands inside that Put or Delete for good: it
\* never holds s's lock exclusive and never writes, it still holds s's lock
\* shared, and neither the visitor nor Range returns.
C17_RangeNotReentrant ==
    \A t \in Threads :
        (op[t] \in {"RangePut", "RangeDelete"} /\ seen[t] # {}) =>
            /\ pc[t] \in {"put_lock", "put_write", "delete_lock", "delete_write"}
            /\ pc[t] \in {"put_write", "delete_write"} => Blocked(t)
            /\ HoldsShared(t, args[t][1])
            /\ ~HoldsExclusive(t, args[t][1])
            /\ seen[t] \subseteq m[args[t][1]]

\* C17 witness: the visitor's Delete of the member just visited has
\* announced itself as the writer of s and sleeps, waiting for the shared
\* lock its own goroutine holds.
C17_Witness ==
    /\ op[Solo] = "RangeDelete"
    /\ pc[Solo] = "delete_write"
    /\ el[Solo] \in seen[Solo]
    /\ w[args[Solo][1]] = Solo
    /\ ActiveReaders(args[Solo][1]) = {Solo}
    /\ Blocked(Solo)

\* The operations that read several sets under all their locks.
MultiSetOps == {"Intersection", "Diff", "Subset", "Equal"}

\* t holds the shared lock of every set of its call.
HoldsAllInputs(t) == \A s \in ArgSets(t) : HoldsShared(t, s)

\* t's call has its result and has released none of its locks yet.
ResultReady(t) ==
    \/ op[t] \in {"Subset", "Equal"} /\ pc[t] = "cmp_runlock_t"
    \/ op[t] = "Diff" /\ pc[t] = "range_runlock"
    \/ op[t] = "Intersection" /\ pc[t] = "inter_runlock" /\ idx[t] = Len(args[t])

\* The result of t's call is the set-theoretic one on the members the sets
\* of the call have now.
ResultNow(t) ==
    CASE op[t] = "Subset" -> ret[t] = (m[args[t][1]] \subseteq m[args[t][2]])
      [] op[t] = "Equal" -> ret[t] = (m[args[t][1]] = m[args[t][2]])
      [] op[t] = "Diff" -> m[Fresh(t)] = m[args[t][1]] \ m[args[t][2]]
      [] op[t] = "Intersection" ->
             m[Fresh(t)] = {e \in m[args[t][1]] : \A s \in ArgSets(t) : e \in m[s]}

\* C18 as claimed: Intersection, Diff, Subset and Equal make every read of
\* a table, the first included, holding the shared locks of all the sets of
\* the call.
C18_AllLocksBeforeFirstRead ==
    \A t \in Threads :
        (op[t] \in MultiSetOps /\ Reads(t) # {}) => HoldsAllInputs(t)

\* C18 as amended: Diff, Subset and Equal make every read of a table holding
\* the shared locks of all the sets of the call; Intersection reads the sizes
\* holding the locks of the sets it has come to, and probes holding all of
\* them.  When the result is ready the call still holds all the locks, and
\* the result is the set-theoretic one on the members the sets have at that
\* instant, whatever other goroutines have put or deleted meanwhile.
C18_AtomicMultiSetRead ==
    \A t \in Threads :
        op[t] \in MultiSetOps =>
            /\ (op[t] # "Intersection" /\ Reads(t) # {}) => HoldsAllInputs(t)
            /\ (pc[t] = "inter_smallest" /\ ~Blocked(t)) =>
                   \A j \in 1..idx[t] : HoldsShared(t, args[t][j])
            /\ pc[t] = "inter_loop" => HoldsAllInputs(t)
            /\ ResultReady(t) => HoldsAllInputs(t) /\ ResultNow(t)

\* C18 witness: Equal has its result after a probe, on two distinct sets,
\* while another goroutine's Put or Delete on the second of them sleeps in
\* Lock until Equal releases it.
C18_Witness ==
    /\ op[1] = "Equal" /\ pc[1] = "cmp_runlock_t"
    /\ args[1][1] # args[1][2]
    /\ seen[1] # {}
    /\ w[args[1][2]] = 2
    /\ Blocked(2)

\* Union's Range over one input has yielded all it will and still holds
\* that input's lock.
UnionSnapshot(t) == op[t] = "Union" /\ pc[t] = "range_runlock"

\* C19: Union ranges over its inputs one after the other, each under that
\* input's shared lock and no other.  When the Range over an input ends the
\* members it yielded are exactly the members the input has at that instant
\* (the snapshot), and all of them are in the result; Union returns after
\* the Range over its last input.  Every step of Union leaves in the result
\* what was in it and adds at most members the input under Range has at that
\* step; so the result is the union of the snapshots, taken in the order of
\* the inputs, whatever other goroutines put or delete meanwhile.
C19_UnionSnapshots ==
    /\ [](\A t \in Threads :
            /\ (op[t] = "Union" /\ pc[t] \in {"range_loop", "range_runlock"}) =>
                   /\ ~Blocked(t) => Held(t) = {RangeSet(t)}
                   /\ seen[t] \subseteq m[RangeSet(t)] \cap m[Fresh(t)]
            /\ UnionSnapshot(t) => seen[t] = m[RangeSet(t)]
            /\ Returned(t, "Union") => idx[t] = Len(args[t]) \/ Len(args[t]) = 0)
    /\ [][\A t \in Threads :
            (op[t] = "Union" /\ op'[t] = "Union") =>
                \/ m'[Fresh(t)] = m[Fresh(t)]
                \/ /\ pc[t] = "range_loop"
                   /\ m[Fresh(t)] \subseteq m'[Fresh(t)]
                   /\ m'[Fresh(t)] \ m[Fresh(t)] \subseteq m[RangeSet(t)]]_vars

\* C19 witness: Union of two distinct sets has returned an element that
\* neither of them has any more, and lacks an element that the first has
\* now: both were changed after Union's Range over them.
C19_Witness ==
    /\ Returned(1, "Union")
    /\ Len(args[1]) = 2
    /\ args[1][1] # args[1][2]
    /\ m[Fresh(1)] \ (m[args[1][1]] \cup m[args[1][2]]) # {}
    /\ m[args[1][1]] \ m[Fresh(1)] # {}

\* t's call was given one Set instance as two of its operands.
SameInstanceTwice(t) ==
    \E i \in 1..Len(args[t]) : \E j \in 1..Len(args[t]) \ {i} : args[t][i] = args[t][j]

\* t sleeps in RLock of a Set whose lock it already holds shared: the writer
\* it sleeps behind waits for t to release that lock, and t for the writer.
SelfDeadlocked(t) == \E s \in AllSets : t \in rwait[s] /\ HoldsShared(t, s)

\* C20: a call of Subset, Equal, Diff or Intersection that was given one
\* Set instance twice never comes to sleep in its second RLock of that Set
\* behind a writer that waits for the first to be released (so that the call
\* returns), also when another goroutine calls Put or Delete on the Set
\* between the two RLocks.
C20_SameInstanceReturns ==
    \A t \in Threads :
        (op[t] \in MultiSetOps /\ SameInstanceTwice(t)) => ~SelfDeadlocked(t)
====
